---- MODULE Spec2Model ----
(***************************************************************************)
(* The Inspire Hand RH56 driver: the Modbus RTU transport                  *)
(* (inspire_hand_modbus_proper.py, class InspireHandModbus) and the device *)
(* driver and per-finger view built on it (inspire_hand/hand.py, classes   *)
(* InspireHand and Finger).  hand.py reaches the transport through         *)
(* self.modbus; the transport methods it calls (connect, disconnect,       *)
(* read_holding_registers, write_single_register,                          *)
(* write_multiple_registers) are modelled from InspireHandModbus.          *)
(*                                                                         *)
(* A call is one step: pc goes from "idle" to "returned" with the call's   *)
(* arguments in `call`, what it wrote to the serial port in `wire`, what   *)
(* it read in `got` and what the caller sees in `result`.  A gesture runs  *)
(* its sub-calls one step each (pc = "gesture").  Return drops the         *)
(* finished call's record.                                                 *)
(***************************************************************************)
EXTENDS Integers, Sequences, FiniteSets, TLC

VARIABLES
    connected,  \* InspireHand._connected
    ser,        \* InspireHandModbus.ser: "none" (None), "open", "closed"
    handle,     \* which serial.Serial object self.ser holds (0: none)
    opens,      \* how many serial ports have been opened so far
    rxbuf,      \* bytes waiting in the serial input buffer (ser.in_waiting)
    pc,         \* "idle", "gesture", "settling" or "returned"
    call,       \* the call being made or last made
    todo,       \* the sub-calls a gesture still has to make
    wire,       \* the frames the call has written to the serial port
    got,        \* the bytes of the call's last ser.read
    result,     \* what the caller gets: exception, return value
    prev,       \* the frames of the call before, when it was open_all_fingers
    ctx         \* "in" inside a `with hand.connect():` block, else "out"

vars ==
    <<connected, ser, handle, opens, rxbuf, pc, call, todo, wire, got, result, prev, ctx>>

-----------------------------------------------------------------------------
(* Register map: hand.py, class Register *)

CLEAR_ERROR == 1004
SAVE == 1005
RESET_PARA == 1006
FORCE_SENSOR_CALIB == 1009
ANGLE_SET == 1486
FORCE_SET == 1498
SPEED_SET == 1522
ANGLE_ACT == 1546
FORCE_ACT == 1582
ERROR == 1606
STATUS == 1612
TEMP == 1618

(* FingerID.ALL, the sentinel that is no register offset *)
ALL == 6

(* The default slave id of both constructors *)
slave_id == 1

(* FingerStatus: the values the enumeration defines (4 is not one) *)
FingerStatusValues == {0, 1, 2, 3, 5, 6, 7}

-----------------------------------------------------------------------------
(* Bounds of the model *)

\* serial ports opened in one run
MaxOpens == 2

\* length of the byte strings given to _calculate_crc on its own
MaxCrcLen == 3

\* registers in a reply whose contents are chosen freely
MaxWords == 3

\* The arguments callers pass
FingerInputs == -1 .. 7
ValueInputs == {-1, 0, 500, 1000, 1001}
Fingers == 0 .. 5

-----------------------------------------------------------------------------
(* Bytes and the CRC *)

RECURSIVE Xor(_, _)
\* a ^ b on non-negative integers
Xor(a, b) ==
    IF a = 0 THEN b
    ELSE IF b = 0 THEN a
    ELSE (((a % 2) + (b % 2)) % 2) + 2 * Xor(a \div 2, b \div 2)

\* x ^ w for a single-bit mask w
FlipBit(x, w) == IF (x \div w) % 2 = 1 THEN x - w ELSE x + w

\* one pass of the inner loop: 0xA001 is bits 15, 13 and 0
crc_shift(crc) ==
    IF crc % 2 = 1
    THEN FlipBit(FlipBit(FlipBit(crc \div 2, 32768), 8192), 1)
    ELSE crc \div 2

\* crc ^= byte, then range(8) passes
crc_byte(crc, byte) ==
    crc_shift(crc_shift(crc_shift(crc_shift(
    crc_shift(crc_shift(crc_shift(crc_shift(Xor(crc, byte)))))))))

RECURSIVE crc_loop(_, _, _)
\* for byte in data, from data[i] on
crc_loop(crc, data, i) ==
    IF i > Len(data) \/ crc \notin 0 .. 65535 THEN crc
    ELSE crc_loop(crc_byte(crc, data[i]), data, i + 1)

\* the two bytes of the CRC, high byte first
to_bytes_big(crc) == <<crc \div 256, crc % 256>>

\* crc.to_bytes(2, byteorder='little')
to_bytes(crc) == <<crc % 256, crc \div 256>>

calculate_crc(data) == to_bytes(crc_loop(65535, data, 1))

\* (x >> 8) & 0xFF and x & 0xFF; Python's >> and & floor, as \div and % do
Hi(x) == (x \div 256) % 256
Lo(x) == x % 256

-----------------------------------------------------------------------------
(* Request frames *)

\* packet.extend(self._calculate_crc(packet))
extend_crc(packet) == packet \o calculate_crc(packet)

\* a request with the count ahead of the address
read_packet_count_first(address, num_registers) ==
    extend_crc(<<slave_id, 3, Hi(num_registers), Lo(num_registers),
                 Hi(address), Lo(address)>>)

read_packet(address, num_registers) ==
    extend_crc(<<slave_id, 3, Hi(address), Lo(address),
                 Hi(num_registers), Lo(num_registers)>>)

write_single_packet(address, value) ==
    extend_crc(<<slave_id, 6, Hi(address), Lo(address), Hi(value), Lo(value)>>)

RECURSIVE DataBytes(_)
\* for value in values: append high byte, low byte
DataBytes(values) ==
    IF values = <<>> THEN <<>>
    ELSE <<Hi(Head(values)), Lo(Head(values))>> \o DataBytes(Tail(values))

\* a frame whose byte_count field counts registers instead of bytes
write_multiple_packet_short_count(address, values) ==
    extend_crc(<<slave_id, 16, Hi(address), Lo(address),
                 Hi(Len(values)), Lo(Len(values)), Len(values)>>
               \o DataBytes(values))

\* num_registers = len(values), byte_count = num_registers * 2
write_multiple_packet(address, values) ==
    extend_crc(<<slave_id, 16, Hi(address), Lo(address),
                 Hi(Len(values)), Lo(Len(values)), Len(values) * 2>>
               \o DataBytes(values))

-----------------------------------------------------------------------------
(* The device: what arrives on the serial line after a request *)

\* a frame with its CRC appended, as the device builds it
Framed(body) == body \o calculate_crc(body)

\* the reply to a read of Len(values) registers
read_reply(values) == Framed(<<slave_id, 3, 2 * Len(values)>> \o DataBytes(values))

\* the acknowledgement of a write: 0x06 echoes the request, 0x10 its first six bytes
write_ack(packet) ==
    IF packet[2] = 6 THEN packet ELSE Framed(SubSeq(packet, 1, 6))

\* the frame with the byte at position pos changed (its lowest bit flipped)
Corrupt(frame, pos) == [frame EXCEPT ![pos] = FlipBit(frame[pos], 1)]

\* register contents the device reports
StatusImage == <<1792, 515, 5>>
ReservedImage == <<4, 2048, 0>>
BlockImage == <<0, 1000, 500, 1, 256, 65535>>
ShortImage == <<7, 9>>

StatusReply == read_reply(StatusImage)
ReservedReply == read_reply(ReservedImage)
BlockReply == read_reply(BlockImage)

\* what the device sends for a request, by kind
DeviceReply(kind, pos, packet) ==
    CASE kind = "none" -> <<>>
      [] kind = "ack" -> write_ack(packet)
      [] kind = "cut_ack" -> SubSeq(write_ack(packet), 1, 7)
      [] kind = "corrupt_ack" -> Corrupt(write_ack(packet), pos)
      [] kind = "exception" -> Framed(<<slave_id, packet[2] + 128, 2>>)
      [] kind = "status" -> StatusReply
      [] kind = "reserved" -> ReservedReply
      [] kind = "block" -> BlockReply
      [] kind = "short_count" -> read_reply(ShortImage)
      [] kind = "empty" -> read_reply(<<>>)
      [] kind = "corrupt_status" -> Corrupt(StatusReply, pos)
      [] kind = "corrupt_block" -> Corrupt(BlockReply, pos)
      [] kind = "cut_block" -> SubSeq(BlockReply, 1, pos)
      [] kind = "other_slave" -> Framed(<<slave_id + 1, 3, 2, 0, 7>>)
      [] kind = "fragment" -> <<slave_id, 3, 2, 0>>
      [] kind = "registers" -> read_reply(pos)

Reply(kind, pos) == [kind |-> kind, pos |-> pos, late |-> FALSE, fault |-> "none"]
Late(kind) == [kind |-> kind, pos |-> 0, late |-> TRUE, fault |-> "none"]
Fault(where) == [kind |-> "none", pos |-> 0, late |-> FALSE, fault |-> where]
\* the well-formed reply that carries the given register contents
Registers(values) ==
    [kind |-> "registers", pos |-> values, late |-> FALSE, fault |-> "none"]

\* the ways one read exchange can go
ReadEnv ==
    {Reply(k, 0) : k \in {"none", "status", "reserved", "block", "short_count",
                          "empty", "exception", "other_slave", "fragment"}}
    \cup {Reply("corrupt_status", p) : p \in 1 .. Len(StatusReply)}
    \cup {Reply("corrupt_block", p) : p \in {3, 4, Len(BlockReply)}}
    \cup {Reply("cut_block", p) : p \in {6, 7}}
    \cup {Late("status"), Fault("write"), Fault("read")}

\* the ways one write exchange can go, the device answering in time
PromptWriteEnv ==
    {Reply(k, 0) : k \in {"none", "ack", "cut_ack", "exception"}}
    \cup {Reply("corrupt_ack", p) : p \in {2, 5}}
    \cup {Fault("write"), Fault("read")}

\* the same, or the acknowledgement arriving after the call has given up
\* (taken for the angle block writes and for reset; reads: Late("status"))
WriteEnv == PromptWriteEnv \cup {Late("ack")}

-----------------------------------------------------------------------------
(* InspireHandModbus: one request/response exchange *)

\* an exchange that sends the request again when nothing has come
Read_retry(packet, waiting, rest) ==
    [st |-> IF waiting = <<>> THEN "no_response" ELSE "response",
     sent |-> IF waiting = <<>> THEN <<packet, packet>> ELSE <<packet>>,
     got |-> waiting, rx |-> rest,
     io |-> IF waiting = <<>> THEN <<"write", "write">> ELSE <<"write", "read">>]

\* the try block: ser.write, sleep, ser.in_waiting, ser.read(ser.in_waiting)
Read(packet, waiting, rest) ==
    [st |-> IF waiting = <<>> THEN "no_response" ELSE "response",
     sent |-> <<packet>>, got |-> waiting, rx |-> rest,
     io |-> IF waiting = <<>> THEN <<"write">> ELSE <<"write", "read">>]

\* the reply is in the buffer when the call looks, or comes after it has looked
Arrive(buf, packet, late, reply) ==
    IF late THEN Read(packet, buf, reply) ELSE Read(packet, buf \o reply, <<>>)

Exchange(buf, packet, e) ==
    IF e.fault = "write"
    THEN [st |-> "exception", sent |-> <<>>, got |-> <<>>, rx |-> buf,
          io |-> <<"write">>]
    ELSE IF e.fault = "read"
    THEN [st |-> "exception", sent |-> <<packet>>, got |-> <<>>, rx |-> buf,
          io |-> <<"write", "read">>]
    ELSE Arrive(buf, packet, e.late, DeviceReply(e.kind, e.pos, packet))

\* what a transport method hands back
Outcome(ret, vals, why, x) ==
    [ret |-> ret, vals |-> vals, why |-> why,
     sent |-> x.sent, got |-> x.got, rx |-> x.rx, io |-> x.io]

NotSent(buf) == [sent |-> <<>>, got |-> <<>>, rx |-> buf, io |-> <<>>]

\* the values the parse loop collects, or the IndexError it raises
\* the i of range(0, byte_count, 2) that pass `if i + 3 < len(response)`
Taken(response) ==
    {i \in 0 .. response[3] - 1 : i % 2 = 0 /\ i + 3 < Len(response)}

\* a parse loop that takes the low byte of each word first
parse_read_response_little(response, x) ==
    IF \E i \in Taken(response) : i + 4 >= Len(response)
    THEN Outcome("None", <<>>, "exception", x)
    ELSE Outcome("list",
                 [k \in 1 .. Cardinality(Taken(response)) |->
                     response[2 * k + 3] * 256 + response[2 * k + 2]],
                 "ok", x)

\* the values the parse loop collects, or the IndexError response[i+4] raises
parse_read_response(response, x) ==
    IF \E i \in Taken(response) : i + 4 >= Len(response)
    THEN Outcome("None", <<>>, "exception", x)
    ELSE Outcome("list",
                 [k \in 1 .. Cardinality(Taken(response)) |->
                     response[2 * k + 2] * 256 + response[2 * k + 3]],
                 "ok", x)

\* a response check that does not look at the slave id
accepts_read_any_slave(response) ==
    Len(response) >= 5 /\ response[2] = 3

\* the response check of a read
accepts_read(response) ==
    Len(response) >= 5 /\ response[1] = slave_id /\ response[2] = 3

\* read_holding_registers after the request has gone out
read_response(x) ==
    IF x.st = "exception" THEN Outcome("None", <<>>, "exception", x)
    ELSE IF x.st = "no_response" THEN Outcome("None", <<>>, "no_response", x)
    ELSE IF accepts_read(x.got) THEN parse_read_response(x.got, x)
    ELSE Outcome("None", <<>>, "invalid", x)

read_holding_registers(buf, address, num_registers, e) ==
    IF ser # "open" THEN Outcome("None", <<>>, "not_connected", NotSent(buf))
    ELSE read_response(Exchange(buf, read_packet(address, num_registers), e))

\* a response check that is content with seven bytes
accepts_write_short(response, fn) ==
    Len(response) >= 7 /\ response[1] = slave_id /\ response[2] = fn

\* the response check of a write with function code fn
accepts_write(response, fn) ==
    Len(response) >= 8 /\ response[1] = slave_id /\ response[2] = fn

\* a write after the request has gone out
write_response(x, fn) ==
    IF x.st = "exception" THEN Outcome("False", <<>>, "exception", x)
    ELSE IF x.st = "no_response" THEN Outcome("False", <<>>, "no_response", x)
    ELSE IF accepts_write(x.got, fn) THEN Outcome("True", <<>>, "ok", x)
    ELSE Outcome("False", <<>>, "invalid", x)

\* the shared body of both writes
write_exchange(buf, packet, fn, e) ==
    IF ser # "open" THEN Outcome("False", <<>>, "not_connected", NotSent(buf))
    ELSE write_response(Exchange(buf, packet, e), fn)

write_single_register(buf, address, value, e) ==
    write_exchange(buf, write_single_packet(address, value), 6, e)

write_multiple_registers(buf, address, values, e) ==
    write_exchange(buf, write_multiple_packet(address, values), 16, e)

-----------------------------------------------------------------------------
(* InspireHand (hand.py): what a call gives its caller *)

\* the call raises exc before touching the transport
Raise(exc, buf) ==
    [exc |-> exc, ret |-> "None", vals |-> <<>>, why |-> "none",
     sent |-> <<>>, got |-> <<>>, rx |-> buf, io |-> <<>>]

\* the call returns None, whatever the transport method t returned
Ignore(t) ==
    [exc |-> "none", ret |-> "None", vals |-> <<>>, why |-> t.why,
     sent |-> t.sent, got |-> t.got, rx |-> t.rx, io |-> t.io]

\* the call returns what the transport method t returned
Pass(t) ==
    [exc |-> "none", ret |-> t.ret, vals |-> t.vals, why |-> t.why,
     sent |-> t.sent, got |-> t.got, rx |-> t.rx, io |-> t.io]

\* the call raises exc after the transport method t has run
RaiseAfter(exc, t) ==
    [exc |-> exc, ret |-> "None", vals |-> <<>>, why |-> t.why,
     sent |-> t.sent, got |-> t.got, rx |-> t.rx, io |-> t.io]

InRange(x, lo, hi) == lo <= x /\ x <= hi

\* an open_all whose targets depend on how often the port has been opened
open_all_fingers_drifting(buf, e) ==
    IF ~connected THEN Raise("ConnectionError", buf)
    ELSE Ignore(write_multiple_registers(buf, ANGLE_SET,
                                         [i \in 1 .. 6 |-> 1001 - opens], e))

open_all_fingers(buf, e) ==
    IF ~connected THEN Raise("ConnectionError", buf)
    ELSE Ignore(write_multiple_registers(buf, ANGLE_SET, [i \in 1 .. 6 |-> 1000], e))

close_all_fingers(buf, e) ==
    IF ~connected THEN Raise("ConnectionError", buf)
    ELSE Ignore(write_multiple_registers(buf, ANGLE_SET, [i \in 1 .. 6 |-> 0], e))

\* a setter whose upper bound is exclusive
set_finger_exclusive(base, buf, finger_id, value, e) ==
    IF ~connected THEN Raise("ConnectionError", buf)
    ELSE IF ~InRange(finger_id, 0, 5) THEN Raise("ValueError", buf)
    ELSE IF ~InRange(value, 0, 999) THEN Raise("ValueError", buf)
    ELSE Ignore(write_single_register(buf, base + (finger_id * 2), value, e))

\* a setter that takes the registers of the fingers to be one apart
set_finger_packed(base, buf, finger_id, value, e) ==
    IF ~connected THEN Raise("ConnectionError", buf)
    ELSE IF ~InRange(finger_id, 0, 5) THEN Raise("ValueError", buf)
    ELSE IF ~InRange(value, 0, 1000) THEN Raise("ValueError", buf)
    ELSE Ignore(write_single_register(buf, base + finger_id, value, e))

\* a setter that does not check which finger it is given
set_finger_any_id(base, buf, finger_id, value, e) ==
    IF ~connected THEN Raise("ConnectionError", buf)
    ELSE IF ~InRange(value, 0, 1000) THEN Raise("ValueError", buf)
    ELSE Ignore(write_single_register(buf, base + (finger_id * 2), value, e))

\* set_finger_angle, set_finger_speed, set_finger_force: the same body at base
set_finger(base, buf, finger_id, value, e) ==
    IF ~connected THEN Raise("ConnectionError", buf)
    ELSE IF ~InRange(finger_id, 0, 5) THEN Raise("ValueError", buf)
    ELSE IF ~InRange(value, 0, 1000) THEN Raise("ValueError", buf)
    ELSE Ignore(write_single_register(buf, base + (finger_id * 2), value, e))

set_finger_angle(buf, finger_id, angle, e) == set_finger(ANGLE_SET, buf, finger_id, angle, e)
set_finger_speed(buf, finger_id, speed, e) == set_finger(SPEED_SET, buf, finger_id, speed, e)
set_finger_force(buf, finger_id, force, e) == set_finger(FORCE_SET, buf, finger_id, force, e)

\* a setter that sends whatever value it is given
set_all_unvalidated(base, buf, value, e) ==
    IF ~connected THEN Raise("ConnectionError", buf)
    ELSE Ignore(write_multiple_registers(buf, base, [i \in 1 .. 6 |-> value], e))

\* set_all_finger_speeds, set_all_finger_forces: the same body at base
set_all(base, buf, value, e) ==
    IF ~connected THEN Raise("ConnectionError", buf)
    ELSE IF ~InRange(value, 0, 1000) THEN Raise("ValueError", buf)
    ELSE Ignore(write_multiple_registers(buf, base, [i \in 1 .. 6 |-> value], e))

set_all_finger_speeds(buf, speed, e) == set_all(SPEED_SET, buf, speed, e)
set_all_finger_forces(buf, force, e) == set_all(FORCE_SET, buf, force, e)

\* get_finger_angles, get_finger_forces: the transport's result, as it is
get_block(base, buf, e) ==
    IF ~connected THEN Raise("ConnectionError", buf)
    ELSE Pass(read_holding_registers(buf, base, 6, e))

get_finger_angles(buf, e) == get_block(ANGLE_ACT, buf, e)
get_finger_forces(buf, e) == get_block(FORCE_ACT, buf, e)

RECURSIVE Unpack(_)
\* for value in values: append value & 0xFF, then (value >> 8) & 0xFF
Unpack(values) ==
    IF values = <<>> THEN <<>>
    ELSE <<Lo(Head(values)), Hi(Head(values))>> \o Unpack(Tail(values))

\* xs[:6]
First6(xs) == SubSeq(xs, 1, IF Len(xs) < 6 THEN Len(xs) ELSE 6)

\* get_finger_errors, get_finger_temperatures: iterating None is a TypeError
unpack_bytes(t) ==
    IF t.ret = "None" THEN RaiseAfter("TypeError", t)
    ELSE [Pass(t) EXCEPT !.vals = First6(Unpack(t.vals))]

get_packed(base, buf, e) ==
    IF ~connected THEN Raise("ConnectionError", buf)
    ELSE unpack_bytes(read_holding_registers(buf, base, 3, e))

get_finger_errors(buf, e) == get_packed(ERROR, buf, e)
get_finger_temperatures(buf, e) == get_packed(TEMP, buf, e)

\* FingerStatus(byte) raises ValueError for a byte the enumeration does not define
to_statuses(t, bytes) ==
    IF \E i \in 1 .. Len(bytes) : bytes[i] \notin FingerStatusValues
    THEN RaiseAfter("ValueError", t)
    ELSE [Pass(t) EXCEPT !.vals = First6(bytes)]

unpack_statuses(t) ==
    IF t.ret = "None" THEN RaiseAfter("TypeError", t)
    ELSE to_statuses(t, Unpack(t.vals))

get_finger_statuses(buf, e) ==
    IF ~connected THEN Raise("ConnectionError", buf)
    ELSE unpack_statuses(read_holding_registers(buf, STATUS, 3, e))

\* a command that does not look at the connected flag
command_unchecked(register, buf, e) ==
    Ignore(write_single_register(buf, register, 1, e))

\* reset, calibrate_force_sensors, save_settings, restore_factory_defaults
command(register, buf, e) ==
    IF ~connected THEN Raise("ConnectionError", buf)
    ELSE Ignore(write_single_register(buf, register, 1, e))

-----------------------------------------------------------------------------
(* Finger (hand.py): the per-finger view *)

\* a selection that gives every finger the first value of the list
Select_first(out, id) ==
    IF out.exc # "none" THEN out
    ELSE IF out.ret = "None" THEN [out EXCEPT !.exc = "TypeError", !.vals = <<>>]
    ELSE IF Len(out.vals) = 0
    THEN [out EXCEPT !.exc = "IndexError", !.ret = "None", !.vals = <<>>]
    ELSE [out EXCEPT !.ret = "value", !.vals = <<out.vals[1]>>]

\* xs[self.id] on what a whole-hand read returned
Select(out, id) ==
    IF out.exc # "none" THEN out
    ELSE IF out.ret = "None" THEN [out EXCEPT !.exc = "TypeError", !.vals = <<>>]
    ELSE IF id + 1 > Len(out.vals)
    THEN [out EXCEPT !.exc = "IndexError", !.ret = "None", !.vals = <<>>]
    ELSE [out EXCEPT !.ret = "value", !.vals = <<out.vals[id + 1]>>]

finger_get(what, buf, id, e) ==
    CASE what = "angle" -> Select(get_finger_angles(buf, e), id)
      [] what = "force" -> Select(get_finger_forces(buf, e), id)
      [] what = "status" -> Select(get_finger_statuses(buf, e), id)
      [] what = "error" -> Select(get_finger_errors(buf, e), id)
      [] what = "temperature" -> Select(get_finger_temperatures(buf, e), id)

FingerProperties == {"angle", "force", "status", "error", "temperature"}

-----------------------------------------------------------------------------
(* InspireHandModbus: its own high-level methods, which return True/False *)

\* a validation failure: print and return False
Refuse(buf) ==
    [exc |-> "none", ret |-> "False", vals |-> <<>>, why |-> "refused",
     sent |-> <<>>, got |-> <<>>, rx |-> buf, io |-> <<>>]

modbus_open_all_fingers(buf, e) ==
    Pass(write_multiple_registers(buf, 1486, [i \in 1 .. 6 |-> 1000], e))

modbus_close_all_fingers(buf, e) ==
    Pass(write_multiple_registers(buf, 1486, [i \in 1 .. 6 |-> 0], e))

modbus_set_finger_angle(buf, finger_id, angle, e) ==
    IF ~InRange(finger_id, 0, 5) THEN Refuse(buf)
    ELSE IF ~InRange(angle, 0, 1000) THEN Refuse(buf)
    ELSE Pass(write_single_register(buf, 1486 + (finger_id * 2), angle, e))

modbus_set_all_finger_speeds(buf, speed, e) ==
    IF ~InRange(speed, 0, 1000) THEN Refuse(buf)
    ELSE Pass(write_multiple_registers(buf, 1522, [i \in 1 .. 6 |-> speed], e))

modbus_set_all_finger_forces(buf, force, e) ==
    IF ~InRange(force, 0, 1000) THEN Refuse(buf)
    ELSE Pass(write_multiple_registers(buf, 1498, [i \in 1 .. 6 |-> force], e))

\* `if values:` then print values[0] .. values[5]: a short list is an IndexError
print_block(t) ==
    IF t.ret = "list" /\ t.vals # <<>> /\ Len(t.vals) < 6
    THEN RaiseAfter("IndexError", t)
    ELSE Pass(t)

read_block(address, buf, e) ==
    print_block(read_holding_registers(buf, address, 6, e))

read_finger_angles(buf, e) == read_block(1546, buf, e)
read_finger_forces(buf, e) == read_block(1582, buf, e)

-----------------------------------------------------------------------------
(* State *)

NoCall == [layer |-> "none", op |-> "none", finger |-> 0, value |-> 0,
           connected |-> FALSE, ser |-> "none"]
NoResult ==
    [exc |-> "none", ret |-> "None", vals |-> <<>>, why |-> "none", io |-> <<>>]

\* the record of a call, with the session state it was made in
Call(layer, op, finger, value) ==
    [layer |-> layer, op |-> op, finger |-> finger, value |-> value,
     connected |-> connected, ser |-> ser]

\* what the caller gets, and the serial calls (write, read) the call has made
Res(out) ==
    [exc |-> out.exc, ret |-> out.ret, vals |-> out.vals, why |-> out.why,
     io |-> out.io]

\* InspireHand.__init__ and InspireHandModbus.__init__
Init ==
    /\ connected = FALSE
    /\ ser = "none"
    /\ handle = 0
    /\ opens = 0
    /\ rxbuf = <<>>
    /\ pc = "idle"
    /\ call = NoCall
    /\ todo = <<>>
    /\ wire = <<>>
    /\ got = <<>>
    /\ result = NoResult
    /\ prev = <<>>
    /\ ctx = "out"

\* a call that runs to its end in one step
\* a call that closes the port when the device has not answered
Do_closing(c, out) ==
    /\ pc' = "returned"
    /\ call' = c
    /\ wire' = out.sent
    /\ got' = out.got
    /\ rxbuf' = out.rx
    /\ result' = Res(out)
    /\ ser' = IF out.why = "no_response" THEN "closed" ELSE ser
    /\ UNCHANGED <<connected, handle, opens, todo, prev, ctx>>

Do(c, out) ==
    /\ pc' = "returned"
    /\ call' = c
    /\ wire' = out.sent
    /\ got' = out.got
    /\ rxbuf' = out.rx
    /\ result' = Res(out)
    /\ UNCHANGED <<connected, ser, handle, opens, todo, prev, ctx>>

\* the caller goes on: the finished call's record is dropped
Return ==
    /\ pc = "returned"
    /\ pc' = "idle"
    /\ call' = NoCall
    /\ wire' = <<>>
    /\ got' = <<>>
    /\ result' = NoResult
    /\ prev' = IF call.op = "open_all_fingers" THEN wire ELSE <<>>
    /\ UNCHANGED <<connected, ser, handle, opens, rxbuf, todo, ctx>>

-----------------------------------------------------------------------------
(* Connecting *)

\* serial.Serial(...) succeeds: a new port object, open, its input buffer empty
PortOpened ==
    /\ opens < MaxOpens
    /\ opens' = opens + 1
    /\ handle' = opens + 1
    /\ ser' = "open"
    /\ rxbuf' = <<>>

\* serial.Serial(...) raises: self.ser keeps what it held
PortFailed == UNCHANGED <<ser, handle, opens, rxbuf>>

\* a disconnect that closes whatever self.ser holds, open or not
PortClosed_unguarded ==
    /\ ser' = "closed"
    /\ rxbuf' = <<>>
    /\ UNCHANGED <<handle, opens>>

\* InspireHandModbus.disconnect
PortClosed ==
    /\ ser' = IF ser = "open" THEN "closed" ELSE ser
    /\ rxbuf' = <<>>
    /\ UNCHANGED <<handle, opens>>

\* a call that puts nothing on the wire has come to its end
Ended(c, ret) ==
    /\ pc' = "returned"
    /\ call' = c
    /\ wire' = <<>>
    /\ got' = <<>>
    /\ result' = [NoResult EXCEPT !.ret = ret]
    /\ UNCHANGED <<todo, prev>>

Done(c, ret) == Ended(c, ret) /\ UNCHANGED ctx

\* InspireHandModbus.connect, called on the transport itself
Connect ==
    /\ pc = "idle"
    /\ UNCHANGED connected
    /\ \/ PortOpened /\ Done(Call("modbus", "connect", 0, 0), "True")
       \/ PortFailed /\ Done(Call("modbus", "connect", 0, 0), "False")

\* InspireHandModbus.disconnect, called on the transport itself
Disconnect ==
    /\ pc = "idle"
    /\ UNCHANGED connected
    /\ PortClosed
    /\ Done(Call("modbus", "disconnect", 0, 0), "None")

\* InspireHand.open
Open ==
    /\ pc = "idle"
    /\ connected' = TRUE
    /\ Done(Call("hand", "open", 0, 0), "None")
    /\ IF connected THEN UNCHANGED <<ser, handle, opens, rxbuf>>
       ELSE PortOpened \/ PortFailed

\* InspireHand.close
Close ==
    /\ pc = "idle"
    /\ connected' = FALSE
    /\ Done(Call("hand", "close", 0, 0), "None")
    /\ IF connected THEN PortClosed
       ELSE UNCHANGED <<ser, handle, opens, rxbuf>>

\* InspireHand.connect, the context manager: `try: self.open(); yield self`
Enter ==
    /\ pc = "idle"
    /\ ctx = "out"
    /\ ctx' = "in"
    /\ connected' = TRUE
    /\ Ended(Call("hand", "connect", 0, 0), "self")
    /\ IF connected THEN UNCHANGED <<ser, handle, opens, rxbuf>>
       ELSE PortOpened \/ PortFailed

\* the body of the `with` block is left, at its end or by an exception of the
\* call just made: `finally: self.close()`
Exit ==
    /\ ctx = "in"
    /\ pc = "idle" \/ (pc = "returned" /\ result.exc # "none")
    /\ ctx' = "out"
    /\ connected' = FALSE
    /\ Ended(Call("hand", "connect.finally", 0, IF pc = "idle" THEN 0 ELSE 1), "None")
    /\ IF connected THEN PortClosed
       ELSE UNCHANGED <<ser, handle, opens, rxbuf>>

-----------------------------------------------------------------------------
(* InspireHand: the register operations *)

OpenAllFingers ==
    /\ pc = "idle"
    /\ \E e \in WriteEnv :
        Do(Call("hand", "open_all_fingers", 0, 0), open_all_fingers(rxbuf, e))

CloseAllFingers ==
    /\ pc = "idle"
    /\ \E e \in WriteEnv :
        Do(Call("hand", "close_all_fingers", 0, 0), close_all_fingers(rxbuf, e))

SetFingerAngle ==
    /\ pc = "idle"
    /\ \E f \in FingerInputs, v \in ValueInputs, e \in PromptWriteEnv :
        Do(Call("hand", "set_finger_angle", f, v), set_finger_angle(rxbuf, f, v, e))

SetFingerSpeed ==
    /\ pc = "idle"
    /\ \E f \in FingerInputs, v \in ValueInputs, e \in PromptWriteEnv :
        Do(Call("hand", "set_finger_speed", f, v), set_finger_speed(rxbuf, f, v, e))

SetFingerForce ==
    /\ pc = "idle"
    /\ \E f \in FingerInputs, v \in ValueInputs, e \in PromptWriteEnv :
        Do(Call("hand", "set_finger_force", f, v), set_finger_force(rxbuf, f, v, e))

SetAllFingerSpeeds ==
    /\ pc = "idle"
    /\ \E v \in ValueInputs, e \in PromptWriteEnv :
        Do(Call("hand", "set_all_finger_speeds", 0, v), set_all_finger_speeds(rxbuf, v, e))

SetAllFingerForces ==
    /\ pc = "idle"
    /\ \E v \in ValueInputs, e \in PromptWriteEnv :
        Do(Call("hand", "set_all_finger_forces", 0, v), set_all_finger_forces(rxbuf, v, e))

GetFingerAngles ==
    /\ pc = "idle"
    /\ \E e \in ReadEnv :
        Do(Call("hand", "get_finger_angles", 0, 0), get_finger_angles(rxbuf, e))

GetFingerForces ==
    /\ pc = "idle"
    /\ \E e \in ReadEnv :
        Do(Call("hand", "get_finger_forces", 0, 0), get_finger_forces(rxbuf, e))

GetFingerStatuses ==
    /\ pc = "idle"
    /\ \E e \in ReadEnv :
        Do(Call("hand", "get_finger_statuses", 0, 0), get_finger_statuses(rxbuf, e))

GetFingerErrors ==
    /\ pc = "idle"
    /\ \E e \in ReadEnv :
        Do(Call("hand", "get_finger_errors", 0, 0), get_finger_errors(rxbuf, e))

GetFingerTemperatures ==
    /\ pc = "idle"
    /\ \E e \in ReadEnv :
        Do(Call("hand", "get_finger_temperatures", 0, 0), get_finger_temperatures(rxbuf, e))

Reset ==
    /\ pc = "idle"
    /\ \E e \in WriteEnv :
        Do(Call("hand", "reset", 0, 0), command(CLEAR_ERROR, rxbuf, e))

\* a calibration that returns as soon as the write has been made
Settling_skipped(c, out) == Do(c, out)

\* the call goes on to time.sleep(6), unless _check_connection has raised
Settling(c, out) ==
    /\ pc' = IF out.exc = "none" THEN "settling" ELSE "returned"
    /\ call' = c
    /\ wire' = out.sent
    /\ got' = out.got
    /\ rxbuf' = out.rx
    /\ result' = Res(out)
    /\ UNCHANGED <<connected, ser, handle, opens, todo, prev, ctx>>

\* the write of calibrate_force_sensors
CalibrateForceSensors ==
    /\ pc = "idle"
    /\ \E e \in PromptWriteEnv :
        Settling(Call("hand", "calibrate_force_sensors", 0, 0),
                 command(FORCE_SENSOR_CALIB, rxbuf, e))

\* time.sleep(6) is over: calibrate_force_sensors returns
Settle ==
    /\ pc = "settling"
    /\ pc' = "returned"
    /\ UNCHANGED <<connected, ser, handle, opens, rxbuf, call, todo, wire, got,
                   result, prev, ctx>>

SaveSettings ==
    /\ pc = "idle"
    /\ \E e \in PromptWriteEnv :
        Do(Call("hand", "save_settings", 0, 0), command(SAVE, rxbuf, e))

RestoreFactoryDefaults ==
    /\ pc = "idle"
    /\ \E e \in PromptWriteEnv :
        Do(Call("hand", "restore_factory_defaults", 0, 0), command(RESET_PARA, rxbuf, e))

-----------------------------------------------------------------------------
(* Finger: the per-finger operations of the six finger objects *)

\* finger.angle = value, and finger.move(value)
FingerMove ==
    /\ pc = "idle"
    /\ \E id \in Fingers, v \in ValueInputs, e \in PromptWriteEnv :
        Do(Call("finger", "move", id, v), set_finger_angle(rxbuf, id, v, e))

\* finger.open(): self.angle = 1000
FingerOpen ==
    /\ pc = "idle"
    /\ \E id \in Fingers, e \in PromptWriteEnv :
        Do(Call("finger", "open", id, 1000), set_finger_angle(rxbuf, id, 1000, e))

\* finger.close(): self.angle = 0
FingerClose ==
    /\ pc = "idle"
    /\ \E id \in Fingers, e \in PromptWriteEnv :
        Do(Call("finger", "close", id, 0), set_finger_angle(rxbuf, id, 0, e))

\* finger.angle, .force, .status, .error, .temperature
FingerGet ==
    /\ pc = "idle"
    /\ \E what \in FingerProperties, id \in Fingers, e \in ReadEnv :
        Do(Call("finger", what, id, 0), finger_get(what, rxbuf, id, e))

-----------------------------------------------------------------------------
(* InspireHandModbus, called on the transport itself *)

\* the addresses and counts direct callers pass
AddressInputs == {ANGLE_ACT, STATUS, TEMP}
CountInputs == {0, 1, 3, 6}

ReadHoldingRegisters ==
    /\ pc = "idle"
    /\ \E a \in AddressInputs, n \in CountInputs, e \in ReadEnv :
        Do(Call("modbus", "read_holding_registers", a, n),
           Pass(read_holding_registers(rxbuf, a, n, e)))

\* the register contents a device may hold
WordInputs == {0, 1, 255, 256, 65535}
RegisterImages == UNION {[1 .. n -> WordInputs] : n \in 0 .. MaxWords}

\* read_holding_registers answered with the registers asked for
ReadRegisterImage ==
    /\ pc = "idle"
    /\ \E values \in RegisterImages :
        Do(Call("modbus", "read_holding_registers", ANGLE_ACT, Len(values)),
           Pass(read_holding_registers(rxbuf, ANGLE_ACT, Len(values),
                                       Registers(values))))

WriteSingleRegister ==
    /\ pc = "idle"
    /\ \E a \in {ANGLE_SET, CLEAR_ERROR}, v \in {0, 1, 1000}, e \in PromptWriteEnv :
        Do(Call("modbus", "write_single_register", a, v),
           Pass(write_single_register(rxbuf, a, v, e)))

WriteMultipleRegisters ==
    /\ pc = "idle"
    /\ \E a \in {ANGLE_SET, SPEED_SET}, v \in {0, 1000}, e \in PromptWriteEnv :
        Do(Call("modbus", "write_multiple_registers", a, v),
           Pass(write_multiple_registers(rxbuf, a, [i \in 1 .. 6 |-> v], e)))

ModbusOpenAllFingers ==
    /\ pc = "idle"
    /\ \E e \in PromptWriteEnv :
        Do(Call("modbus", "open_all_fingers", 0, 0), modbus_open_all_fingers(rxbuf, e))

ModbusCloseAllFingers ==
    /\ pc = "idle"
    /\ \E e \in PromptWriteEnv :
        Do(Call("modbus", "close_all_fingers", 0, 0), modbus_close_all_fingers(rxbuf, e))

ModbusSetFingerAngle ==
    /\ pc = "idle"
    /\ \E f \in FingerInputs, v \in ValueInputs, e \in PromptWriteEnv :
        Do(Call("modbus", "set_finger_angle", f, v), modbus_set_finger_angle(rxbuf, f, v, e))

ModbusSetAllFingerSpeeds ==
    /\ pc = "idle"
    /\ \E v \in ValueInputs, e \in PromptWriteEnv :
        Do(Call("modbus", "set_all_finger_speeds", 0, v), modbus_set_all_finger_speeds(rxbuf, v, e))

ModbusSetAllFingerForces ==
    /\ pc = "idle"
    /\ \E v \in ValueInputs, e \in PromptWriteEnv :
        Do(Call("modbus", "set_all_finger_forces", 0, v), modbus_set_all_finger_forces(rxbuf, v, e))

ReadFingerAngles ==
    /\ pc = "idle"
    /\ \E e \in ReadEnv :
        Do(Call("modbus", "read_finger_angles", 0, 0), read_finger_angles(rxbuf, e))

ReadFingerForces ==
    /\ pc = "idle"
    /\ \E e \in ReadEnv :
        Do(Call("modbus", "read_finger_forces", 0, 0), read_finger_forces(rxbuf, e))

\* the byte strings a direct caller gives to _calculate_crc
CrcByteInputs == {0, 1, 128, 255}
CrcInputs == UNION {[1 .. n -> CrcByteInputs] : n \in 0 .. MaxCrcLen}

\* what _calculate_crc(data) gives its caller: two bytes
crc_result(buf, data) ==
    [exc |-> "none", ret |-> "bytes", vals |-> calculate_crc(data), why |-> "none",
     sent |-> <<>>, got |-> <<>>, rx |-> buf, io |-> <<>>]

\* InspireHandModbus._calculate_crc, called on its own
CalculateCrc ==
    /\ pc = "idle"
    /\ \E data \in CrcInputs :
        Do(Call("modbus", "_calculate_crc", 0, data), crc_result(rxbuf, data))

-----------------------------------------------------------------------------
(* InspireHand: the gestures, one sub-call a step *)

Sub(op, finger, value) == [op |-> op, finger |-> finger, value |-> value]

pinch(force) ==
    <<Sub("open_all_fingers", 0, 0), Sub("set_all_finger_forces", 0, force),
      Sub("set_finger_angle", 4, 0), Sub("set_finger_angle", 3, 0)>>

point ==
    <<Sub("open_all_fingers", 0, 0), Sub("set_finger_angle", 0, 0),
      Sub("set_finger_angle", 1, 0), Sub("set_finger_angle", 2, 0),
      Sub("set_finger_angle", 4, 0)>>

thumbs_up ==
    <<Sub("open_all_fingers", 0, 0), Sub("set_finger_angle", 0, 0),
      Sub("set_finger_angle", 1, 0), Sub("set_finger_angle", 2, 0),
      Sub("set_finger_angle", 3, 0), Sub("set_finger_angle", 5, 500)>>

grip(force) ==
    <<Sub("set_all_finger_forces", 0, force), Sub("close_all_fingers", 0, 0)>>

\* the sub-call c of a gesture
SubCall(c, buf, e) ==
    CASE c.op = "open_all_fingers" -> open_all_fingers(buf, e)
      [] c.op = "close_all_fingers" -> close_all_fingers(buf, e)
      [] c.op = "set_all_finger_forces" -> set_all_finger_forces(buf, c.value, e)
      [] c.op = "set_finger_angle" -> set_finger_angle(buf, c.finger, c.value, e)

\* the ways a gesture's exchanges go
GestureEnv == {Reply("ack", 0), Reply("none", 0), Fault("write")}

\* the gesture's own self._check_connection()
Begin(c, subcalls) ==
    /\ call' = c
    /\ wire' = <<>>
    /\ got' = <<>>
    /\ UNCHANGED <<connected, ser, handle, opens, rxbuf, prev, ctx>>
    /\ IF ~connected
       THEN /\ pc' = "returned"
            /\ todo' = <<>>
            /\ result' = Res(Raise("ConnectionError", rxbuf))
       ELSE /\ pc' = "gesture"
            /\ todo' = subcalls
            /\ result' = NoResult

Pinch ==
    /\ pc = "idle"
    /\ \E v \in ValueInputs : Begin(Call("hand", "pinch", 0, v), pinch(v))
Point == pc = "idle" /\ Begin(Call("hand", "point", 0, 0), point)
ThumbsUp == pc = "idle" /\ Begin(Call("hand", "thumbs_up", 0, 0), thumbs_up)
Grip ==
    /\ pc = "idle"
    /\ \E v \in ValueInputs : Begin(Call("hand", "grip", 0, v), grip(v))

\* the gesture's next sub-call; an exception ends the gesture
Step(out, over) ==
    /\ wire' = wire \o out.sent
    /\ got' = out.got
    /\ rxbuf' = out.rx
    /\ result' = Res(out)
    /\ todo' = IF over THEN <<>> ELSE Tail(todo)
    /\ pc' = IF over THEN "returned" ELSE "gesture"

Continue(out) == Step(out, out.exc # "none" \/ Len(todo) = 1)

GestureStep ==
    /\ pc = "gesture"
    /\ \E e \in GestureEnv : Continue(SubCall(Head(todo), rxbuf, e))
    /\ UNCHANGED <<connected, ser, handle, opens, call, prev, ctx>>

-----------------------------------------------------------------------------
(* The specification *)

Next ==
    \/ Return
    \/ Connect \/ Disconnect \/ Open \/ Close \/ Enter \/ Exit
    \/ OpenAllFingers \/ CloseAllFingers
    \/ SetFingerAngle \/ SetFingerSpeed \/ SetFingerForce
    \/ SetAllFingerSpeeds \/ SetAllFingerForces
    \/ GetFingerAngles \/ GetFingerForces
    \/ GetFingerStatuses \/ GetFingerErrors \/ GetFingerTemperatures
    \/ Reset \/ CalibrateForceSensors \/ Settle
    \/ SaveSettings \/ RestoreFactoryDefaults
    \/ FingerMove \/ FingerOpen \/ FingerClose \/ FingerGet
    \/ ReadHoldingRegisters \/ ReadRegisterImage \/ WriteSingleRegister \/ WriteMultipleRegisters
    \/ ModbusOpenAllFingers \/ ModbusCloseAllFingers \/ ModbusSetFingerAngle
    \/ ModbusSetAllFingerSpeeds \/ ModbusSetAllFingerForces
    \/ ReadFingerAngles \/ ReadFingerForces \/ CalculateCrc
    \/ Pinch \/ Point \/ ThumbsUp \/ Grip \/ GestureStep

Spec == Init /\ [][Next]_vars

-----------------------------------------------------------------------------
(* Vocabulary of the properties *)

Returned == pc = "returned"

\* the call was made on an open session
OnOpenHand == call.layer \in {"hand", "finger"} /\ call.connected /\ call.ser = "open"
OnOpenPort == call.layer = "modbus" /\ call.ser = "open"

\* the trailing two bytes are the CRC16/Modbus of the bytes before them
CrcValid(frame) ==
    /\ Len(frame) >= 2
    /\ SubSeq(frame, Len(frame) - 1, Len(frame))
         = calculate_crc(SubSeq(frame, 1, Len(frame) - 2))

\* the call returned register values
GaveValues == result.exc = "none" /\ result.ret \in {"list", "value"}

ReadOps ==
    {"get_finger_angles", "get_finger_forces", "get_finger_statuses",
     "get_finger_errors", "get_finger_temperatures", "read_holding_registers",
     "read_finger_angles", "read_finger_forces"} \cup FingerProperties

FingerSetters == {"set_finger_angle", "set_finger_speed", "set_finger_force"}
AllSetters == {"set_all_finger_speeds", "set_all_finger_forces"}
Gestures == {"pinch", "point", "thumbs_up", "grip"}

\* the register operations of InspireHand (every call of the Finger layer is one)
HandRegisterOps ==
    FingerSetters \cup AllSetters \cup Gestures \cup FingerProperties
    \cup {"open_all_fingers", "close_all_fingers", "get_finger_angles",
          "get_finger_forces", "get_finger_statuses", "get_finger_errors",
          "get_finger_temperatures", "reset", "calibrate_force_sensors",
          "save_settings", "restore_factory_defaults"}

\* the three protocol methods of the transport
ProtocolOps ==
    {"read_holding_registers", "write_single_register", "write_multiple_registers"}

ValidFinger(f) == f \in 0 .. 5
ValidValue(v) == v \in 0 .. 1000

-----------------------------------------------------------------------------
(* C1 *)

\* C1: a read gives register values only if the bytes it read end with the
\* CRC16/Modbus of the bytes before them; a response with a corrupted byte
\* makes the read fail and return no values.
C1_ReadRequiresValidCrc ==
    (Returned /\ call.op \in ReadOps /\ got # <<>> /\ ~CrcValid(got))
        => ~GaveValues

-----------------------------------------------------------------------------
(* C2 *)

\* C2: when the session is not open, every register operation of InspireHand
\* and Finger raises the not-connected error, every protocol method of the
\* transport reports not connected, and nothing is written to the serial port.
C2_ClosedSessionRejects ==
    Returned =>
        /\ (call.layer = "hand" /\ call.op \in HandRegisterOps /\ ~call.connected)
              => (result.exc = "ConnectionError" /\ wire = <<>> /\ got = <<>>)
        /\ (call.layer = "finger" /\ ~call.connected)
              => (result.exc = "ConnectionError" /\ wire = <<>> /\ got = <<>>)
        /\ (call.layer = "modbus" /\ call.op \notin {"connect", "disconnect"}
                /\ call.ser # "open")
              => (~GaveValues /\ result.ret # "True" /\ wire = <<>> /\ got = <<>>)
        /\ (call.layer = "modbus" /\ call.op \in ProtocolOps /\ call.ser # "open")
              => result.why = "not_connected"

\* a setter called after close() on a session that had been opened
C2_Witness ==
    /\ Returned
    /\ call.layer = "hand" /\ call.op = "set_finger_angle"
    /\ ~call.connected /\ call.ser = "closed"
    /\ ValidFinger(call.finger) /\ ValidValue(call.value)
    /\ result.exc = "ConnectionError"

-----------------------------------------------------------------------------
(* C3 *)

\* C3: on an open session set_finger_angle(finger, angle) is rejected exactly
\* when finger is outside 0..5 (6, ALL, included) or angle is outside 0..1000,
\* and otherwise goes to the transport; 0 and 1000 are accepted.
C3_SetFingerAngleRange ==
    (Returned /\ call.op = "set_finger_angle") =>
        /\ OnOpenHand =>
              IF ValidFinger(call.finger) /\ ValidValue(call.value)
              THEN result.exc = "none" /\ result.why # "none"
              ELSE result.exc = "ValueError" /\ wire = <<>>
        /\ OnOpenPort =>
              IF ValidFinger(call.finger) /\ ValidValue(call.value)
              THEN result.why # "refused"
              ELSE result.why = "refused" /\ result.ret = "False" /\ wire = <<>>

\* the bound 1000 accepted for the last finger, and its frame written
C3_Witness ==
    /\ Returned /\ OnOpenHand
    /\ call.layer = "hand" /\ call.op = "set_finger_angle"
    /\ call.finger = 5 /\ call.value = 1000
    /\ result.exc = "none" /\ Len(wire) = 1

-----------------------------------------------------------------------------
(* C4 *)

\* the arguments of a setter call are out of range
InvalidSetterCall(c) ==
    /\ c.layer \in {"hand", "modbus"}
    /\ \/ c.op \in FingerSetters /\ ~(ValidFinger(c.finger) /\ ValidValue(c.value))
       \/ c.op \in AllSetters /\ ~ValidValue(c.value)

\* C4: a setter called with a finger id outside 0..5 or a value outside
\* 0..1000 writes no frame, reads nothing, and leaves the session state (the
\* connected flag, the port, its input buffer) as it was.
C4_InvalidSetterNoTraffic ==
    [][(pc = "idle" /\ pc' = "returned" /\ InvalidSetterCall(call'))
          => (wire' = <<>> /\ got' = <<>>
              /\ UNCHANGED <<connected, ser, handle, opens, rxbuf>>)]_vars

\* an out-of-range speed refused on an open session, stale bytes left waiting
C4_Witness ==
    /\ Returned /\ OnOpenHand
    /\ call.op = "set_all_finger_speeds" /\ call.value = 1001
    /\ result.exc = "ValueError"
    /\ rxbuf # <<>>

-----------------------------------------------------------------------------
(* C5 *)

AllWriteOps == {"open_all_fingers", "close_all_fingers"} \cup AllSetters

\* the base address the claim gives for an all-finger write
AllWriteBase(op) ==
    CASE op \in {"open_all_fingers", "close_all_fingers"} -> 1486
      [] op = "set_all_finger_speeds" -> 1522
      [] op = "set_all_finger_forces" -> 1498

\* the value an all-finger write gives to each finger
AllWriteValue(c) ==
    CASE c.op = "open_all_fingers" -> 1000
      [] c.op = "close_all_fingers" -> 0
      [] OTHER -> c.value

\* frame is [slave, 0x10, address, count 6, byte_count 12, v six times, CRC]
IsWriteMultipleFrame(frame, address, v) ==
    /\ Len(frame) = 21
    /\ SubSeq(frame, 1, 7) = <<1, 16, address \div 256, address % 256, 0, 6, 12>>
    /\ \A k \in 1 .. 6 : frame[6 + (2 * k)] = v \div 256 /\ frame[7 + (2 * k)] = v % 256
    /\ CrcValid(frame)

\* the call reached the serial port and the write did not raise
Exchanged == result.why \in {"ok", "no_response", "invalid"}

\* C5: an all-finger write (open_all, close_all, set_all_finger_speeds,
\* set_all_finger_forces) puts at most one frame on the wire, and exactly one
\* when the exchange takes place; the frame is function 0x10 at the base
\* address (1486 angle, 1522 speed, 1498 force) with count 6, byte_count 12,
\* six big-endian words and a CRC; for close_all the data bytes are all zero.
C5_AllFingerWriteFrame ==
    (Returned /\ call.layer \in {"hand", "modbus"} /\ call.op \in AllWriteOps) =>
        /\ Len(wire) <= 1
        /\ Exchanged => Len(wire) = 1
        /\ \A i \in 1 .. Len(wire) :
              IsWriteMultipleFrame(wire[i], AllWriteBase(call.op), AllWriteValue(call))
        /\ (call.op = "close_all_fingers" /\ Len(wire) = 1)
              => \A j \in 8 .. 19 : wire[1][j] = 0

\* close_all acknowledged by the device
C5_Witness ==
    /\ Returned /\ OnOpenHand
    /\ call.layer = "hand" /\ call.op = "close_all_fingers"
    /\ Len(wire) = 1 /\ result.why = "ok"

-----------------------------------------------------------------------------
(* C6 *)

\* the base address of a per-finger write
FingerWriteBase(c) ==
    CASE c.op = "set_finger_speed" -> 1522
      [] c.op = "set_finger_force" -> 1498
      [] OTHER -> 1486

\* frame is [slave, 0x06, addr_hi, addr_lo, val_hi, val_lo, crc_lo, crc_hi]
IsWriteSingleFrame(frame, address, v) ==
    /\ Len(frame) = 8
    /\ SubSeq(frame, 1, 6)
         = <<1, 6, address \div 256, address % 256, v \div 256, v % 256>>
    /\ CrcValid(frame)

PerFingerWrite ==
    \/ call.layer \in {"hand", "modbus"} /\ call.op \in FingerSetters
    \/ call.layer = "finger" /\ call.op \in {"move", "open", "close"}

\* C6: a per-finger write (set_finger_angle, set_finger_speed,
\* set_finger_force, Finger.move, Finger.open, Finger.close) puts at most one
\* frame on the wire, and exactly one when the exchange takes place: the
\* 8-byte function 0x06 frame for the register at base + 2 * finger.
C6_PerFingerWriteFrame ==
    (Returned /\ PerFingerWrite) =>
        /\ Len(wire) <= 1
        /\ Exchanged => Len(wire) = 1
        /\ \A i \in 1 .. Len(wire) :
              IsWriteSingleFrame(wire[i], FingerWriteBase(call) + (2 * call.finger),
                                 call.value)

\* Finger.close of finger 3: register 1492, value 0
C6_Witness ==
    /\ Returned /\ OnOpenHand
    /\ call.layer = "finger" /\ call.op = "close" /\ call.finger = 3
    /\ Len(wire) = 1 /\ SubSeq(wire[1], 1, 6) = <<1, 6, 5, 212, 0, 0>>

-----------------------------------------------------------------------------
(* C7 *)

PackedReads == {"get_finger_errors", "get_finger_statuses", "get_finger_temperatures"}

PackedBase(op) ==
    CASE op = "get_finger_errors" -> 1606
      [] op = "get_finger_statuses" -> 1612
      [] op = "get_finger_temperatures" -> 1618

\* frame is the request for count registers at address
IsReadFrame(frame, address, count) ==
    /\ Len(frame) = 8
    /\ SubSeq(frame, 1, 6) = <<1, 3, address \div 256, address % 256, 0, count>>
    /\ CrcValid(frame)

\* C7: get_finger_errors, get_finger_statuses and get_finger_temperatures ask
\* for 3 registers at 1606, 1612 and 1618 and, from every response the
\* decoder accepts, return exactly 6 values: finger 2k from the low byte of
\* register k and finger 2k+1 from its high byte.
C7_PackedReadGivesSix ==
    (Returned /\ call.layer = "hand" /\ call.op \in PackedReads) =>
        /\ Len(wire) <= 1
        /\ \A i \in 1 .. Len(wire) : IsReadFrame(wire[i], PackedBase(call.op), 3)
        /\ result.why = "ok" =>
              /\ result.exc = "none"
              /\ result.ret = "list"
              /\ Len(result.vals) = 6
              /\ \A k \in 0 .. 2 :
                    /\ result.vals[(2 * k) + 1] = got[5 + (2 * k)]
                    /\ result.vals[(2 * k) + 2] = got[4 + (2 * k)]

-----------------------------------------------------------------------------
(* C8 *)

\* C8: get_finger_statuses does not fail on a status byte that is not one of
\* the defined codes (4, or 8..255): it never raises ValueError.
C8_UndefinedStatusTolerated ==
    (Returned /\ call.op \in {"get_finger_statuses", "status"})
        => result.exc # "ValueError"

-----------------------------------------------------------------------------
(* C9 *)

BlockReads ==
    {"get_finger_angles", "get_finger_forces", "read_finger_angles",
     "read_finger_forces"}

\* C9: a whole-hand read of angles or forces that succeeds returns exactly 6
\* values, whatever the byte_count field or the length of the response.
C9_BlockReadGivesSix ==
    (Returned /\ call.op \in BlockReads /\ result.exc = "none"
        /\ result.ret = "list")
        => Len(result.vals) = 6

-----------------------------------------------------------------------------
(* C10 *)

\* the session the call is made on is already open
AlreadyOpen ==
    \/ call'.layer = "hand" /\ call'.op = "open" /\ connected
    \/ call'.layer = "modbus" /\ call'.op = "connect" /\ ser = "open"

\* C10: open() or connect() on a session that is already open is a no-op and
\* not an error: the port, its handle and the connected flag stay as they
\* were, and the call does not report a failure.
C10_ConnectIdempotent ==
    [][(pc = "idle" /\ pc' = "returned" /\ AlreadyOpen)
          => (/\ UNCHANGED <<connected, ser, handle, opens>>
              /\ result'.exc = "none" /\ result'.ret # "False")]_vars

-----------------------------------------------------------------------------
(* C11 *)

\* the step is a call of InspireHand.close or InspireHandModbus.disconnect
ClosingCall ==
    /\ pc = "idle" /\ pc' = "returned"
    /\ \/ call'.layer = "hand" /\ call'.op = "close"
       \/ call'.layer = "modbus" /\ call'.op = "disconnect"

\* C11: close() and disconnect() are idempotent: in any state the call raises
\* nothing and leaves the session closed (close() clears the connected flag,
\* and the port it opened is not open afterwards); a port that is not open,
\* because it was closed before or never opened, is left as it is, so a port
\* is closed at most once per open.
C11_CloseIdempotent ==
    [][ClosingCall =>
          /\ result'.exc = "none"
          /\ call'.layer = "hand" => ~connected'
          /\ (call'.layer = "hand" /\ connected) => ser' # "open"
          /\ (call'.layer = "hand" /\ ~connected) => ser' = ser
          /\ call'.layer = "modbus" => (ser' # "open" /\ connected' = connected)
          /\ ser # "open" => ser' = ser
          /\ UNCHANGED <<handle, opens>>]_vars

\* close() has returned on a session that an earlier close() had closed
C11_Witness ==
    /\ Returned
    /\ call.layer = "hand" /\ call.op = "close"
    /\ ~call.connected /\ call.ser = "closed"
    /\ ~connected /\ ser = "closed" /\ result.exc = "none"

-----------------------------------------------------------------------------
(* C12 *)

\* C12: when no bytes have arrived for a request by the time the call looks,
\* the call gives a no-response failure (None from a read, False from a write
\* of the transport), having sent its one frame and read nothing, and the
\* session is as it was: the port is still open, with the same handle, so the
\* next operation needs no connect().
C12_NoResponseKeepsConnection ==
    [][(pc \in {"idle", "gesture"} /\ result'.why = "no_response") =>
          /\ ser = "open"
          /\ UNCHANGED <<connected, ser, handle, opens>>
          /\ got' = <<>>
          /\ Len(wire') = Len(wire) + 1
          /\ call'.layer = "modbus" => result'.ret \in {"None", "False"}]_vars

\* a read of the transport that timed out, the port still open
C12_Witness ==
    /\ Returned
    /\ call.layer = "modbus" /\ call.op = "read_holding_registers"
    /\ result.why = "no_response" /\ result.ret = "None"
    /\ ser = "open" /\ Len(wire) = 1

-----------------------------------------------------------------------------
(* C13 *)

\* the call that has returned failed with a transport error: the port was not
\* open, no bytes arrived, or the serial write or read raised
TransportError == result.why \in {"not_connected", "no_response", "exception"}

\* C13: after an operation has failed with a transport error the connection
\* is closed: the port is not open and, for InspireHand, is_connected is
\* false, so that further operations fail as not connected.
C13_TransportErrorClosesSession ==
    (Returned /\ TransportError) =>
        /\ ser # "open"
        /\ call.layer \in {"hand", "finger"} => ~connected

-----------------------------------------------------------------------------
(* C14 *)

\* the function code of a write method of the transport
WriteFunction(op) == IF op = "write_single_register" THEN 6 ELSE 16

\* C14: on an open port write_single_register and write_multiple_registers
\* return True exactly when the bytes read are at least 8 and begin with the
\* slave id (1) and the function code of the request (0x06, 0x10); nothing
\* else of the response is looked at.
C14_WriteAckAcceptance ==
    (Returned /\ OnOpenPort
        /\ call.op \in {"write_single_register", "write_multiple_registers"}) =>
        /\ result.ret \in {"True", "False"}
        /\ (result.ret = "True") <=>
              (/\ Len(got) >= 8
               /\ got[1] = 1
               /\ got[2] = WriteFunction(call.op))

\* an acknowledgement whose echoed value differs from the request, accepted
C14_Witness ==
    /\ Returned /\ OnOpenPort
    /\ call.op = "write_single_register"
    /\ result.ret = "True"
    /\ Len(wire) = 1 /\ Len(got) = 8
    /\ SubSeq(got, 1, 4) = SubSeq(wire[1], 1, 4)
    /\ got[5] # wire[1][5]

-----------------------------------------------------------------------------
(* C15 *)

\* the bytes read pass the three tests of the read path
ReadHeaderValid(response) ==
    Len(response) >= 5 /\ response[1] = 1 /\ response[2] = 3

\* C15: a read whose response is shorter than 5 bytes, or does not begin with
\* the slave id (1), or whose second byte is not 0x03, fails: the transport
\* returns None (invalid response) and no read of either layer gives register
\* values to its caller.
C15_ReadHeaderRejected ==
    (Returned /\ call.op \in ReadOps /\ got # <<>> /\ ~ReadHeaderValid(got)) =>
        /\ ~GaveValues
        /\ result.why = "invalid"
        /\ call.layer = "modbus" => result.ret = "None"

\* a reply from another slave, refused
C15_Witness ==
    /\ Returned
    /\ call.layer = "modbus" /\ call.op = "read_holding_registers"
    /\ Len(got) >= 5 /\ got[1] = 2 /\ got[2] = 3
    /\ result.ret = "None" /\ result.why = "invalid"

-----------------------------------------------------------------------------
(* C16 *)

\* the request asks for no register, or for registers beyond the last one of
\* the register map (the three temperature registers at 1618)
OutOfRangeRead(address, count) == count = 0 \/ address + count > 1618 + 3

\* C16: read_holding_registers called with count 0, or with an address and
\* count that run past the register map, is rejected: no frame is sent and
\* no values are returned.
C16_InvalidRangeRejected ==
    (Returned /\ OnOpenPort /\ call.op = "read_holding_registers"
        /\ OutOfRangeRead(call.finger, call.value))
        => (wire = <<>> /\ ~GaveValues)

-----------------------------------------------------------------------------
(* C17 *)

RECURSIVE RefShift(_, _)
\* the reference register after n more bits: shifted right, and XORed with
\* the reflected polynomial 0xA001 when the bit shifted out is 1
RefShift(reg, n) ==
    IF n = 0 \/ reg \notin 0 .. 65535 THEN reg
    ELSE RefShift(IF reg % 2 = 1 THEN Xor(reg \div 2, 40961) ELSE reg \div 2, n - 1)

RECURSIVE RefCrc16(_, _)
\* the reference CRC16/Modbus register after the bytes of data
RefCrc16(reg, data) ==
    IF data = <<>> \/ reg \notin 0 .. 65535 THEN reg
    ELSE RefCrc16(RefShift(Xor(reg, Head(data)), 8), Tail(data))

LowFirst(x) == <<x % 256, x \div 256>>

\* initial value 0xFFFF, no final XOR, low byte first
RefCrcBytes(data) == LowFirst(RefCrc16(65535, data))

\* the frame ends with the reference CRC of the bytes before it
EndsWithRefCrc(frame) ==
    /\ Len(frame) >= 3
    /\ SubSeq(frame, Len(frame) - 1, Len(frame))
         = RefCrcBytes(SubSeq(frame, 1, Len(frame) - 2))

\* C17: every request frame put on the wire (function 0x03, 0x06 or 0x10)
\* ends with the CRC16/Modbus (polynomial 0xA001 reflected, initial value
\* 0xFFFF, no final XOR) of all its preceding bytes, low byte first; and
\* _calculate_crc gives the reference CRC for every byte string, the check
\* value 0x4B37 of "123456789" included.
C17_CrcExact ==
    /\ wire # <<>> =>
          /\ wire[Len(wire)][2] \in {3, 6, 16}
          /\ EndsWithRefCrc(wire[Len(wire)])
    /\ (Returned /\ call.op = "_calculate_crc") =>
          /\ result.vals = RefCrcBytes(call.value)
          /\ calculate_crc(<<49, 50, 51, 52, 53, 54, 55, 56, 57>>) = <<55, 75>>

\* _calculate_crc([255, 128, 1]) has given E1 F0, as the code does
C17_Witness ==
    /\ Returned /\ call.op = "_calculate_crc"
    /\ call.value = <<255, 128, 1>>
    /\ result.vals = <<225, 240>>

-----------------------------------------------------------------------------
(* C18 *)

\* [slave, 0x03, 2n, n words, crc_lo, crc_hi] and nothing more
WellFormedReadReply(response) ==
    /\ ReadHeaderValid(response)
    /\ response[3] % 2 = 0
    /\ Len(response) = response[3] + 5
    /\ CrcValid(response)

\* C18: a read that receives a well-formed response carrying n words returns
\* exactly those n values, each the big-endian word at its place in the
\* payload; the two CRC bytes are not decoded as data.
C18_ReadRoundTrip ==
    (Returned /\ WellFormedReadReply(got)
        /\ call.op \in {"read_holding_registers", "get_finger_angles",
                        "get_finger_forces"}) =>
        /\ result.exc = "none" /\ result.ret = "list"
        /\ Len(result.vals) = got[3] \div 2
        /\ \A k \in 1 .. Len(result.vals) :
              result.vals[k] = (got[(2 * k) + 2] * 256) + got[(2 * k) + 3]

\* the registers [65535, 0, 256] read back
C18_Witness ==
    /\ Returned /\ call.op = "read_holding_registers"
    /\ WellFormedReadReply(got) /\ Len(got) = 11
    /\ SubSeq(got, 3, 9) = <<6, 255, 255, 0, 0, 1, 0>>
    /\ result.vals = <<65535, 0, 256>>

-----------------------------------------------------------------------------
(* C19 *)

\* the step is a call of one of the three protocol methods on an open port
ProtocolCallOnOpenPort ==
    /\ pc = "idle" /\ ser = "open"
    /\ call'.layer = "modbus" /\ call'.op \in ProtocolOps

\* C19: a call makes at most one serial write and then at most one serial
\* read, and puts at most one frame on the wire; a protocol method on an open
\* port makes exactly one write; on no response or an invalid response the
\* request is on the wire once and is not sent again. (Every statement of a
\* gesture is such a call, made after the one before it has returned.)
C19_OneWriteOneRead ==
    [][(pc = "idle" \/ pc = "gesture") =>
          /\ result'.io \in {<<>>, <<"write">>, <<"write", "read">>}
          /\ Len(wire') <= Len(wire) + 1
          /\ result'.io = <<>> => (wire' = wire /\ got' = <<>>)
          /\ result'.io = <<"write">> => got' = <<>>
          /\ result'.why \in {"no_response", "invalid"}
                => Len(wire') = Len(wire) + 1
          /\ ProtocolCallOnOpenPort => result'.io # <<>>]_vars

\* a write refused for its response, after one write and one read
C19_Witness ==
    /\ Returned /\ OnOpenPort
    /\ call.op = "write_multiple_registers"
    /\ result.why = "invalid"
    /\ result.io = <<"write", "read">> /\ Len(wire) = 1

-----------------------------------------------------------------------------
(* C20 *)

\* the whole-hand read behind a property of Finger: its address and count
PropertyBase(op) ==
    CASE op = "angle" -> 1546
      [] op = "force" -> 1582
      [] op = "error" -> 1606
      [] op = "status" -> 1612
      [] op = "temperature" -> 1618

PropertyCount(op) == IF op \in {"angle", "force"} THEN 6 ELSE 3

\* element i of the list the whole-hand read makes of the bytes read: word i
\* of the payload for angle and force, byte i of the payload taken low byte
\* first for the packed quantities
ElementOf(op, response, i) ==
    IF op \in {"angle", "force"}
    THEN (response[(2 * i) + 4] * 256) + response[(2 * i) + 5]
    ELSE IF i % 2 = 0 THEN response[5 + i] ELSE response[3 + i]

\* C20: getting a property of finger i (angle, force, status, error,
\* temperature) sends at most one request, the request of the whole-hand
\* read of that quantity (6 registers for angle and force, the 3 packed
\* registers for the others) and never a narrower one, and returns element i
\* of that read's result, or raises where there is no such element.
C20_FingerPropertyIsBlockRead ==
    (Returned /\ call.layer = "finger" /\ call.op \in FingerProperties) =>
        /\ Len(wire) <= 1
        /\ Exchanged => Len(wire) = 1
        /\ \A j \in 1 .. Len(wire) :
              IsReadFrame(wire[j], PropertyBase(call.op), PropertyCount(call.op))
        /\ result.ret = "value" \/ result.exc # "none"
        /\ result.ret = "value" =>
              /\ result.exc = "none"
              /\ result.vals = <<ElementOf(call.op, got, call.finger)>>

\* the angle of finger 4 taken from the six registers read at 1546
C20_Witness ==
    /\ Returned /\ call.layer = "finger" /\ call.op = "angle" /\ call.finger = 4
    /\ Len(wire) = 1 /\ SubSeq(wire[1], 1, 6) = <<1, 3, 6, 10, 0, 6>>
    /\ Len(got) = 17
    /\ result.ret = "value" /\ result.vals = <<256>>

-----------------------------------------------------------------------------
(* C21 *)

\* the frame of open_all_fingers: 1000 to the six registers at 1486
OpenAllFrame ==
    <<1, 16, 5, 206, 0, 6, 12,
      3, 232, 3, 232, 3, 232, 3, 232, 3, 232, 3, 232, 34, 239>>

\* the first register and the number of registers of a write-multiple frame
StartOf(frame) == (frame[3] * 256) + frame[4]
CountOf(frame) == (frame[5] * 256) + frame[6]

\* word k (from 0) of the payload of a write-multiple frame
WordOf(frame, k) == (frame[8 + (2 * k)] * 256) + frame[9 + (2 * k)]

\* a device's registers after it has executed a write-multiple frame: word k
\* of the payload goes to register start + k, the others keep their contents
AfterWriteMultiple(regs, frame) ==
    [a \in DOMAIN regs |->
        IF a - StartOf(frame) \in 0 .. CountOf(frame) - 1
        THEN WordOf(frame, a - StartOf(frame))
        ELSE regs[a]]

\* register contents a device may start from
DeviceImages ==
    {[a \in 1486 .. 1497 |-> 0], [a \in 1486 .. 1497 |-> a - 1486]}

\* C21: every open_all_fingers that writes puts the same frame on the wire,
\* so that two calls in a row send byte-identical frames; and a device that
\* has executed the frame once has the same registers after executing it
\* again.
C21_OpenAllTwiceIdentical ==
    (Returned /\ call.op = "open_all_fingers" /\ wire # <<>>) =>
        /\ wire = <<OpenAllFrame>>
        /\ prev # <<>> => wire = prev
        /\ \A r \in DeviceImages :
              AfterWriteMultiple(AfterWriteMultiple(r, wire[1]), wire[1])
                = AfterWriteMultiple(r, wire[1])

\* open_all_fingers has written its frame right after an open_all_fingers
\* that wrote its own
C21_Witness ==
    /\ Returned /\ OnOpenHand
    /\ call.layer = "hand" /\ call.op = "open_all_fingers"
    /\ Len(prev) = 1 /\ Len(wire) = 1 /\ wire = prev

-----------------------------------------------------------------------------
(* C22 *)

CommandOps ==
    {"reset", "save_settings", "restore_factory_defaults", "calibrate_force_sensors"}

\* the register the claim gives for a command
CommandRegister(op) ==
    CASE op = "reset" -> 1004
      [] op = "save_settings" -> 1005
      [] op = "restore_factory_defaults" -> 1006
      [] op = "calibrate_force_sensors" -> 1009

\* the step in which a command of InspireHand returns to its caller
CommandReturns ==
    /\ pc # "returned" /\ pc' = "returned"
    /\ call'.layer = "hand" /\ call'.op \in CommandOps

\* C22: reset, save_settings, restore_factory_defaults and
\* calibrate_force_sensors put at most one frame on the wire, and exactly one
\* when the exchange takes place: the 0x06 frame with value 1 for register
\* 1004, 1005, 1006 and 1009; the first three return with the exchange, and
\* calibrate_force_sensors, unless it raised, returns from its settling wait,
\* which it began after the write (made whenever the port is open).
C22_CommandFrames ==
    [][CommandReturns =>
          /\ Len(wire') <= 1
          /\ result'.why \in {"ok", "no_response", "invalid"} => Len(wire') = 1
          /\ \A i \in 1 .. Len(wire') :
                IsWriteSingleFrame(wire'[i], CommandRegister(call'.op), 1)
          /\ call'.op # "calibrate_force_sensors" => pc = "idle"
          /\ (call'.op = "calibrate_force_sensors" /\ result'.exc = "none") =>
                /\ pc = "settling"
                /\ call'.ser = "open" => result.io # <<>>
                /\ wire' = wire /\ result' = result]_vars

\* calibrate_force_sensors has returned from its wait, its frame acknowledged
C22_Witness ==
    /\ Returned /\ OnOpenHand
    /\ call.op = "calibrate_force_sensors"
    /\ result.why = "ok"
    /\ wire = << <<1, 6, 3, 241, 0, 1, 25, 189>> >>

-----------------------------------------------------------------------------
(* C23 *)

WholeHandReads ==
    {"get_finger_angles", "get_finger_forces", "get_finger_errors",
     "get_finger_statuses", "get_finger_temperatures", "read_finger_angles",
     "read_finger_forces"}

\* the address and the count the claim gives for a whole-hand read
ReadBase(op) ==
    CASE op \in {"get_finger_angles", "read_finger_angles"} -> 1546
      [] op \in {"get_finger_forces", "read_finger_forces"} -> 1582
      [] op = "get_finger_errors" -> 1606
      [] op = "get_finger_statuses" -> 1612
      [] op = "get_finger_temperatures" -> 1618

ReadCount(op) ==
    IF op \in {"get_finger_errors", "get_finger_statuses", "get_finger_temperatures"}
    THEN 3 ELSE 6

\* the addresses of the register map: the commands, a slot every two
\* addresses for each finger in the three set blocks, the blocks read
MapAddresses ==
    {1004, 1005, 1006, 1009}
    \cup {base + (2 * f) : base \in {1486, 1498, 1522}, f \in 0 .. 5}
    \cup {1546, 1582, 1606, 1612, 1618}

\* the call is one of the driver's own operations, which choose the address
\* themselves (the three protocol methods are given theirs by the caller)
DriverOperation ==
    \/ call.layer \in {"hand", "finger"}
    \/ call.layer = "modbus" /\ call.op \notin ProtocolOps

\* the address field of a request frame
AddressOf(frame) == (frame[3] * 256) + frame[4]

\* C23: every frame a whole-hand read puts on the wire is [slave, 0x03,
\* addr_hi, addr_lo, count_hi, count_lo, crc_lo, crc_hi] with 6 registers at
\* 1546 (angles), 6 at 1582 (forces), 3 at 1606 (errors), 3 at 1612
\* (statuses), 3 at 1618 (temperatures), and exactly one such frame is sent
\* when the exchange takes place; no operation of the driver puts a frame on
\* the wire whose address is not in the register map.
C23_ReadFrames ==
    /\ (Returned /\ call.op \in WholeHandReads) =>
          /\ Len(wire) <= 1
          /\ Exchanged => Len(wire) = 1
          /\ \A i \in 1 .. Len(wire) :
                IsReadFrame(wire[i], ReadBase(call.op), ReadCount(call.op))
    /\ DriverOperation =>
          \A i \in 1 .. Len(wire) : AddressOf(wire[i]) \in MapAddresses

\* get_finger_temperatures has asked for the 3 registers at 1618
C23_Witness ==
    /\ Returned /\ OnOpenHand
    /\ call.op = "get_finger_temperatures"
    /\ Len(wire) = 1 /\ SubSeq(wire[1], 1, 6) = <<1, 3, 6, 82, 0, 3>>
    /\ result.ret = "list"

-----------------------------------------------------------------------------
(* C24 *)

\* the sequence s begins with the sequence p
StartsWith(s, p) == Len(p) <= Len(s) /\ SubSeq(s, 1, Len(p)) = p

\* C24: the response an operation accepts is the reply to its own request:
\* bytes that were already waiting in the input buffer when the operation
\* began (the reply to an earlier request, come after that request had been
\* given up) are not taken as its response.
C24_StaleReplyNotConsumed ==
    [][((pc = "idle" \/ pc = "gesture") /\ rxbuf # <<>> /\ result'.why = "ok")
          => ~StartsWith(got', rxbuf)]_vars

-----------------------------------------------------------------------------
(* C25 *)

\* a value for each finger that tells the fingers apart, and the frame of an
\* all-finger write of these values at base
FingerMarks == [i \in 1 .. 6 |-> 9 + i]
AllFingerFrame(base) == write_multiple_packet(base, FingerMarks)

\* the register in which a device executing the all-finger write at base
\* finds the value of finger f
RegisterOfFinger(base, f) ==
    CHOOSE a \in base .. base + 11 :
        AfterWriteMultiple([r \in base .. base + 11 |-> 0],
                           AllFingerFrame(base))[a] = FingerMarks[f + 1]

-----------------------------------------------------------------------------
(* C26 *)

\* C26: pinch(force) and grip(force) with a force outside 0..1000 put
\* nothing on the wire.
C26_BadForceNoTraffic ==
    (Returned /\ call.layer = "hand" /\ call.op \in {"pinch", "grip"}
              /\ ~ValidValue(call.value))
        => wire = <<>>

-----------------------------------------------------------------------------
(* C27 *)

SetBlocks == {ANGLE_SET, FORCE_SET, SPEED_SET}

\* the registers of the block of the quantity at base
Block(base) == base .. base + 10

\* the quantities a driver operation sets
QuantityBases(c) ==
    CASE c.op \in {"set_finger_speed", "set_all_finger_speeds"} -> {SPEED_SET}
      [] c.op \in {"set_finger_force", "set_all_finger_forces"} -> {FORCE_SET}
      [] c.op \in {"pinch", "grip"} -> {ANGLE_SET, FORCE_SET}
      [] c.op \in {"set_finger_angle", "open_all_fingers", "close_all_fingers",
                   "move", "open", "close", "point", "thumbs_up"} -> {ANGLE_SET}
      [] OTHER -> {}

IsWriteFrame(frame) == Len(frame) >= 8 /\ frame[2] \in {6, 16}

\* the registers a write frame addresses and the words it carries
WrittenAddresses(frame) ==
    IF frame[2] = 6 THEN {AddressOf(frame)}
    ELSE StartOf(frame) .. StartOf(frame) + CountOf(frame) - 1
WrittenWords(frame) ==
    IF frame[2] = 6 THEN {(frame[5] * 256) + frame[6]}
    ELSE {WordOf(frame, k) : k \in 0 .. CountOf(frame) - 1}

TouchesSetBlocks(frame) ==
    \E b \in SetBlocks : WrittenAddresses(frame) \cap Block(b) # {}

\* C27: every frame a driver operation has written to the angle-set,
\* speed-set or force-set registers carries only words in 0..1000 and
\* addresses only registers of the block (base .. base + 10) of a quantity
\* that operation sets.
C27_SetWritesInRangeAndBlock ==
    DriverOperation =>
        \A i \in 1 .. Len(wire) :
            (IsWriteFrame(wire[i]) /\ TouchesSetBlocks(wire[i])) =>
                /\ WrittenWords(wire[i]) \subseteq 0 .. 1000
                /\ \E b \in QuantityBases(call) :
                       WrittenAddresses(wire[i]) \subseteq Block(b)

\* a pinch has run to its end: all-finger writes to the angle and force
\* blocks, then per-finger writes for the thumb and the index finger
C27_Witness ==
    /\ Returned /\ call.op = "pinch" /\ result.exc = "none"
    /\ Len(wire) = 4
    /\ StartOf(wire[1]) = ANGLE_SET /\ StartOf(wire[2]) = FORCE_SET
    /\ wire[3][2] = 6 /\ wire[4][2] = 6

-----------------------------------------------------------------------------
(* C28 *)

====
